---- MODULE Spec2Model ----
(***************************************************************************)
(* Model of src/parser/parser.c: the parse driver raw_parser and the       *)
(* one-token-lookahead token filter filtered_base_yylex.                   *)
(*                                                                         *)
(* The scanner (base_yylex, scanner_init, scanner_finish), the grammar     *)
(* engine (base_yyparse) and the error exit (longjmp on jmpbuffer) live    *)
(* outside parser.c; they are modelled as the environment of the driver.   *)
(***************************************************************************)
EXTENDS Integers, Sequences, FiniteSets, TLC

\* ---------------------------------------------------------------- bounds
\* longest scanner token stream (EOF excluded) of the first raw_parser call
MaxLen == 3
\* longest scanner token stream of every later raw_parser call
MaxLenLater == 1
\* most filtered_base_yylex calls the grammar engine makes in one session
MaxPulls == 5
\* most raw_parser calls
MaxCalls == 2

\* ----------------------------------------------------------- token kinds
EOF == "EOF"
NULLS_P == "NULLS_P"
FIRST_P == "FIRST_P"
LAST_P == "LAST_P"
\* WITH and LOCAL are reserved words of TLA+: the kinds are named WITH_P, LOCAL_P
WITH_P == "WITH"
CASCADED == "CASCADED"
LOCAL_P == "LOCAL"
CHECK == "CHECK"
SELECT == "SELECT"
NULLS_FIRST == "NULLS_FIRST"
NULLS_LAST == "NULLS_LAST"
WITH_CASCADED == "WITH_CASCADED"
WITH_LOCAL == "WITH_LOCAL"
WITH_CHECK == "WITH_CHECK"

\* the kinds a scanner stream is made of (SELECT stands for every kind the
\* filter has no case for)
ScanKinds == {NULLS_P, FIRST_P, LAST_P, WITH_P, CASCADED, LOCAL_P, CHECK, SELECT}

NIL == <<>>
NoToken == "none"

VARIABLES
    \* parser.c statics and globals
    parsetree,          \* List *parsetree
    jmpbuffer,          \* jmp_buf jmpbuffer: the call whose setjmp filled it, 0 = never set
    lookahead_token,
    have_lookahead,
    lookahead_yylval,
    lookahead_yylloc,
    pool_memory,        \* "NULL" or "pool"
    arena,              \* the arena's memory: "none", "live" or "released"
    pool_creates,       \* number of pool_memory_create calls
    entry_lookahead,    \* have_lookahead as the current raw_parser call found it
    \* scanner's output globals
    base_yylval,
    base_yylloc,
    \* scanner
    stream,             \* token kinds the scanner produces for the current input
    pos,                \* number of tokens the scanner has returned
    \* driver control
    pc,                 \* where raw_parser is
    callNo,             \* number of raw_parser calls entered
    result,             \* value returned by the last raw_parser call
    outcome,            \* how the current / last call ended
    \* history of the current session
    emitted,            \* what filtered_base_yylex returned, call by call
    overwritten,        \* number of stores into an occupied lookahead slot
    scanner_inits,      \* completed scanner_init calls of the current raw_parser call
    scanner_finishes    \* scanner_finish calls of the current raw_parser call

filterVars == <<lookahead_token, have_lookahead, lookahead_yylval, lookahead_yylloc,
                base_yylval, base_yylloc, pos>>
histVars == <<emitted, overwritten>>
poolVars == <<pool_memory, arena, pool_creates, entry_lookahead>>
vars == <<parsetree, jmpbuffer, lookahead_token, have_lookahead, lookahead_yylval,
          lookahead_yylloc, poolVars, base_yylval, base_yylloc, stream, pos, pc,
          callNo, result, outcome, emitted, overwritten, scanner_inits,
          scanner_finishes>>

\* ---------------------------------------------------------------- scanner
\* kind of the i-th token the scanner returns: the stream, then end-of-input
ScanTok(i) == IF i <= Len(stream) THEN stream[i] ELSE EOF
\* value and location the scanner leaves in base_yylval / base_yylloc for it
LexVal(i) == <<i>>
LexLoc(i) == i

\* one successful base_yylex() call on filter state s
base_yylex(s) ==
    [s EXCEPT !.pos = s.pos + 1,
              !.tok = ScanTok(s.pos + 1),
              !.base_yylval = LexVal(s.pos + 1),
              !.base_yylloc = LexLoc(s.pos + 1)]

\* ----------------------------------------------------- filtered_base_yylex
\* statics and scanner globals at the start of a filter call, with the
\* call's locals
FilterEntry ==
    [have_lookahead |-> have_lookahead,
     lookahead_token |-> lookahead_token,
     lookahead_yylval |-> lookahead_yylval,
     lookahead_yylloc |-> lookahead_yylloc,
     base_yylval |-> base_yylval,
     base_yylloc |-> base_yylloc,
     pos |-> pos,
     tok |-> NoToken,
     cur_token |-> NoToken,
     next_token |-> NoToken,
     cur_yylval |-> <<0>>,
     cur_yylloc |-> 0,
     idx |-> 0,
     lost |-> 0]

\* mutant: the replayed token is not marked consumed
ReplayLookaheadKeep(s) ==
    [s EXCEPT !.cur_token = s.lookahead_token,
              !.base_yylval = s.lookahead_yylval,
              !.base_yylloc = s.lookahead_yylloc,
              !.idx = s.pos]

\* lines 105-108: take the current token from the lookahead slot
ReplayLookahead(s) ==
    [s EXCEPT !.cur_token = s.lookahead_token,
              !.base_yylval = s.lookahead_yylval,
              !.base_yylloc = s.lookahead_yylloc,
              !.have_lookahead = FALSE,
              !.idx = s.pos]

\* line 111: take the current token from the scanner
ScanCurrent(s) ==
    LET t == base_yylex(s) IN [t EXCEPT !.cur_token = t.tok, !.idx = t.pos]

\* mutant: the lookahead slot is never looked at
GetCurrentAlwaysScan(s) == ScanCurrent(s)

\* lines 103-111
GetCurrent(s) == IF s.have_lookahead THEN ReplayLookahead(s) ELSE ScanCurrent(s)

\* lines 120-121 and 155-156: remember the trigger's output info
SaveCurrent(s) ==
    [s EXCEPT !.cur_yylval = s.base_yylval, !.cur_yylloc = s.base_yylloc]

\* lines 122 and 157: fetch the token after the trigger
ScanNext(s) ==
    LET t == base_yylex(s) IN [t EXCEPT !.next_token = t.tok]

\* mutant: the trigger's output info is not restored
SaveLookaheadNoRestore(s) ==
    [s EXCEPT !.lookahead_token = s.next_token,
              !.lookahead_yylval = s.base_yylval,
              !.lookahead_yylloc = s.base_yylloc,
              !.have_lookahead = TRUE,
              !.lost = IF s.have_lookahead THEN 1 ELSE 0]

\* mutant: the first token's info is restored before the second's is buffered
SaveLookaheadRestoreFirst(s) ==
    [s EXCEPT !.lookahead_token = s.next_token,
              !.lookahead_yylval = s.cur_yylval,
              !.lookahead_yylloc = s.cur_yylloc,
              !.have_lookahead = TRUE,
              !.lost = IF s.have_lookahead THEN 1 ELSE 0,
              !.base_yylval = s.cur_yylval,
              !.base_yylloc = s.cur_yylloc]

\* lines 132-139 and 170-177: buffer the second token, restore the first's info
SaveLookahead(s) ==
    [s EXCEPT !.lookahead_token = s.next_token,
              !.lookahead_yylval = s.base_yylval,
              !.lookahead_yylloc = s.base_yylloc,
              !.have_lookahead = TRUE,
              !.lost = IF s.have_lookahead THEN 1 ELSE 0,
              !.base_yylval = s.cur_yylval,
              !.base_yylloc = s.cur_yylloc]

\* mutant: NULLS LAST is not recognised
NullsSwitchNoLast(s) ==
    CASE s.next_token = FIRST_P -> [s EXCEPT !.cur_token = NULLS_FIRST]
      [] OTHER -> SaveLookahead(s)

\* lines 123-141
NullsSwitch(s) ==
    CASE s.next_token = FIRST_P -> [s EXCEPT !.cur_token = NULLS_FIRST]
      [] s.next_token = LAST_P -> [s EXCEPT !.cur_token = NULLS_LAST]
      [] OTHER -> SaveLookahead(s)

\* mutant: case CHECK lacks its break and falls into the default case
WithSwitchFallThrough(s) ==
    CASE s.next_token = CASCADED -> [s EXCEPT !.cur_token = WITH_CASCADED]
      [] s.next_token = LOCAL_P -> [s EXCEPT !.cur_token = WITH_LOCAL]
      [] s.next_token = CHECK -> SaveLookahead([s EXCEPT !.cur_token = WITH_CHECK])
      [] OTHER -> SaveLookahead(s)

\* lines 158-179
WithSwitch(s) ==
    CASE s.next_token = CASCADED -> [s EXCEPT !.cur_token = WITH_CASCADED]
      [] s.next_token = LOCAL_P -> [s EXCEPT !.cur_token = WITH_LOCAL]
      [] s.next_token = CHECK -> [s EXCEPT !.cur_token = WITH_CHECK]
      [] OTHER -> SaveLookahead(s)

\* line 114: the kinds that make the filter look ahead
NeedsLookahead(tok) == tok \in {NULLS_P, WITH_P}

\* mutant: the second case label names CHECK instead of WITH
LookaheadSwitchWrongCase(s) ==
    CASE s.cur_token = NULLS_P -> NullsSwitch(ScanNext(SaveCurrent(s)))
      [] s.cur_token = CHECK -> WithSwitch(ScanNext(SaveCurrent(s)))
      [] OTHER -> s

\* lines 114-184 (the state after the lookahead fetch is bound through a
\* singleton set, which makes TLC compute it once)
LookaheadSwitch(s) ==
    CASE s.cur_token = NULLS_P ->
            CHOOSE r \in {NullsSwitch(n) : n \in {ScanNext(SaveCurrent(s))}} : TRUE
      [] s.cur_token = WITH_P ->
            CHOOSE r \in {WithSwitch(n) : n \in {ScanNext(SaveCurrent(s))}} : TRUE
      [] OTHER -> s

\* lines 94-187: a filter call in which the scanner raises no error; the
\* returned token is the cur_token field
filtered_base_yylex(s) ==
    CHOOSE r \in {LookaheadSwitch(c) : c \in {GetCurrent(s)}} : TRUE

\* the filter's statics and the scanner's globals after the filter ran to s
StoreFilterState(s) ==
    /\ have_lookahead' = s.have_lookahead
    /\ lookahead_token' = s.lookahead_token
    /\ lookahead_yylval' = s.lookahead_yylval
    /\ lookahead_yylloc' = s.lookahead_yylloc
    /\ base_yylval' = s.base_yylval
    /\ base_yylloc' = s.base_yylloc
    /\ pos' = s.pos

\* what one returned filter call leaves in the session's history: the token
\* returned, the output value and location at return, the scanner index of
\* the call's current token, the scanner position before and after the call,
\* and whether the slot is occupied at return
Emission(s) ==
    [tok |-> s.cur_token, val |-> s.base_yylval, loc |-> s.base_yylloc,
     idx |-> s.idx, n0 |-> pos, n1 |-> s.pos, slot |-> s.have_lookahead]

\* ------------------------------------------------------------- raw_parser
\* token streams of at most n tokens
Streams(n) == UNION {[1..k -> ScanKinds] : k \in 0..n}

\* mutant: the engine's status is not looked at
ReturnValueIgnoreStatus(yyresult, tree) == tree

\* lines 70-73
ReturnValue(yyresult, tree) == IF yyresult # 0 THEN NIL ELSE tree

\* mutant: the recovery path hands out what the grammar stored
RecoveryValueTree(tree) == tree

\* line 62
RecoveryValue(tree) == NIL

\* mutant: the recovery path forgets scanner_finish
FinishOnRecoverySkip(n) == n

\* line 61: scanner_finish() on the recovery path, n calls made before
FinishOnRecovery(n) == n + 1

\* mutant: the normal path finishes the scanner again
FinishAfterParseTwice(n) == n + 2

\* line 68: scanner_finish() after base_yyparse returned
FinishAfterParse(n) == n + 1

\* mutant: the arena is created on every call
NeedsCreateAlways(pm) == TRUE

\* line 50
NeedsCreate(pm) == pm = "NULL"

\* mutant: parsetree is left as the previous call left it
ResetParsetreeKeep(tree) == tree

\* line 53
ResetParsetree(tree) == NIL

\* mutant: the lookahead slot is left as the previous call left it
ResetLookaheadKeep(have) == have

\* line 54
ResetLookahead(have) == FALSE

Init ==
    /\ parsetree = NIL
    /\ jmpbuffer = 0
    /\ lookahead_token = NoToken
    /\ have_lookahead = FALSE
    /\ lookahead_yylval = <<0>>
    /\ lookahead_yylloc = 0
    /\ pool_memory = "NULL"
    /\ arena = "none"
    /\ pool_creates = 0
    /\ entry_lookahead = FALSE
    /\ base_yylval = <<0>>
    /\ base_yylloc = 0
    /\ stream = <<>>
    /\ pos = 0
    /\ pc = "idle"
    /\ callNo = 0
    /\ result = NIL
    /\ outcome = "none"
    /\ emitted = <<>>
    /\ overwritten = 0
    /\ scanner_inits = 0
    /\ scanner_finishes = 0

\* an error of the given kind is raised: control leaves the scanner or the
\* grammar engine through longjmp(jmpbuffer). No token is asked of the scanner
\* after that, so the rest of the input and the session's history are dropped.
Raise(kind) ==
    /\ pc' = "longjmp"
    /\ outcome' = kind
    /\ stream' = <<>>
    /\ pos' = 0
    /\ emitted' = <<>>
    /\ UNCHANGED <<parsetree, jmpbuffer, poolVars, callNo, result, overwritten,
                   scanner_inits, scanner_finishes>>

\* lines 46-54: raw_parser(str) is entered; str is the text the scanner will
\* turn into the token stream
RawParserBegin ==
    /\ pc \in {"idle", "returned"}
    /\ callNo < MaxCalls
    /\ \E str \in Streams(IF callNo = 0 THEN MaxLen ELSE MaxLenLater) : stream' = str
    /\ callNo' = callNo + 1
    /\ pool_memory' = IF NeedsCreate(pool_memory) THEN "pool" ELSE pool_memory
    /\ pool_creates' = IF NeedsCreate(pool_memory) THEN pool_creates + 1 ELSE pool_creates
    /\ arena' = "live"
    /\ parsetree' = ResetParsetree(parsetree)
    /\ entry_lookahead' = have_lookahead
    /\ have_lookahead' = ResetLookahead(have_lookahead)
    /\ pc' = "scanner_init"
    /\ result' = NIL
    /\ outcome' = "none"
    /\ emitted' = <<>>
    /\ overwritten' = 0
    /\ scanner_inits' = 0
    /\ scanner_finishes' = 0
    /\ UNCHANGED <<jmpbuffer, lookahead_token, lookahead_yylval, lookahead_yylloc,
                   base_yylval, base_yylloc, pos>>

\* lines 56-59: scanner_init and parser_init complete, setjmp returns 0 and
\* base_yyparse starts
ScannerInit ==
    /\ pc = "scanner_init"
    /\ pos' = 0
    /\ scanner_inits' = scanner_inits + 1
    /\ jmpbuffer' = callNo
    /\ pc' = "parsing"
    /\ UNCHANGED <<parsetree, lookahead_token, have_lookahead, lookahead_yylval,
                   lookahead_yylloc, poolVars, base_yylval, base_yylloc, stream,
                   callNo, result, outcome, emitted, overwritten, scanner_finishes>>

\* line 56: scanner_init raises an error, which jumps through jmpbuffer
\* before line 59 has filled it
ScannerInitError ==
    /\ pc = "scanner_init"
    /\ Raise("init_error")
    /\ UNCHANGED <<lookahead_token, have_lookahead, lookahead_yylval, lookahead_yylloc,
                   base_yylval, base_yylloc>>

\* the grammar engine pulls one token: a whole filtered_base_yylex call
FilterCall ==
    /\ pc = "parsing"
    /\ Len(emitted) < MaxPulls
    /\ \E s \in {filtered_base_yylex(FilterEntry)} :
         /\ StoreFilterState(s)
         /\ emitted' = Append(emitted, Emission(s))
         /\ overwritten' = overwritten + s.lost
    /\ UNCHANGED <<parsetree, jmpbuffer, poolVars, stream, pc, callNo, result,
                   outcome, scanner_inits, scanner_finishes>>

\* line 111: the scanner raises a lexical error on the call for the current token
FilterLexErrorCurrent ==
    /\ pc = "parsing"
    /\ Len(emitted) < MaxPulls
    /\ ~FilterEntry.have_lookahead
    /\ Raise("lexical")
    /\ UNCHANGED <<lookahead_token, have_lookahead, lookahead_yylval, lookahead_yylloc,
                   base_yylval, base_yylloc>>

\* lines 122 / 157: the scanner raises a lexical error on the lookahead fetch
FilterLexErrorNext ==
    /\ pc = "parsing"
    /\ Len(emitted) < MaxPulls
    /\ LET s == SaveCurrent(GetCurrent(FilterEntry)) IN
         /\ NeedsLookahead(s.cur_token)
         /\ have_lookahead' = s.have_lookahead
         /\ base_yylval' = s.base_yylval
         /\ base_yylloc' = s.base_yylloc
    /\ Raise("lexical")
    /\ UNCHANGED <<lookahead_token, lookahead_yylval, lookahead_yylloc>>

\* the grammar engine stores a (possibly partial) tree in parsetree
EngineStoreTree ==
    /\ pc = "parsing"
    /\ parsetree # <<callNo>>
    /\ parsetree' = <<callNo>>
    /\ UNCHANGED <<jmpbuffer, poolVars, stream, pc, callNo, result, outcome,
                   scanner_inits, scanner_finishes, filterVars, histVars>>

\* the grammar engine raises a syntax error
EngineSyntaxError ==
    /\ pc = "parsing"
    /\ Raise("syntax")
    /\ UNCHANGED <<lookahead_token, have_lookahead, lookahead_yylval, lookahead_yylloc,
                   base_yylval, base_yylloc>>

\* lines 66-73: base_yyparse returns yyresult, the scanner is finished and
\* raw_parser returns
EngineReturn ==
    /\ pc = "parsing"
    /\ \E yyresult \in {0, 1} :
         /\ result' = ReturnValue(yyresult, parsetree)
         /\ outcome' = IF yyresult = 0 THEN "accept" ELSE "reject"
    /\ scanner_finishes' = FinishAfterParse(scanner_finishes)
    /\ stream' = <<>>
    /\ pos' = 0
    /\ emitted' = <<>>
    /\ pc' = "returned"
    /\ UNCHANGED <<parsetree, jmpbuffer, lookahead_token, have_lookahead,
                   lookahead_yylval, lookahead_yylloc, poolVars, base_yylval,
                   base_yylloc, callNo, overwritten, scanner_inits>>

\* lines 59-63: the jump lands on the setjmp of this call, which returns
\* nonzero: the scanner is finished and NIL returned
Recover ==
    /\ scanner_finishes' = FinishOnRecovery(scanner_finishes)
    /\ result' = RecoveryValue(parsetree)
    /\ stream' = <<>>
    /\ pos' = 0
    /\ emitted' = <<>>
    /\ pc' = "returned"
    /\ UNCHANGED <<parsetree, jmpbuffer, lookahead_token, have_lookahead,
                   lookahead_yylval, lookahead_yylloc, poolVars, base_yylval,
                   base_yylloc, callNo, outcome, overwritten, scanner_inits>>

SetjmpNonzero ==
    /\ pc = "longjmp"
    /\ jmpbuffer = callNo
    /\ Recover

\* the jump goes through a jmpbuffer this call has not filled: undefined
\* behaviour. A buffer never filled sends control nowhere defined; a buffer
\* filled by an earlier call names a frame that has returned, and the jump
\* either crashes or runs lines 61-62 on whatever now lies at that frame.
LongjmpUndefined ==
    /\ pc = "longjmp"
    /\ jmpbuffer # callNo
    /\ \/ /\ pc' = "crashed"
          /\ UNCHANGED <<parsetree, jmpbuffer, poolVars, stream, callNo, result,
                         outcome, scanner_inits, scanner_finishes, filterVars,
                         histVars>>
       \/ /\ jmpbuffer # 0
          /\ Recover

\* lines 76-79: free_parser() between two parses releases the arena's memory
\* with pool_memory_delete(pool_memory, 1); pool_memory itself is not changed
free_parser ==
    /\ pc = "returned"
    /\ pool_memory # "NULL"
    /\ arena = "live"
    /\ arena' = "released"
    /\ UNCHANGED <<parsetree, jmpbuffer, pool_memory, pool_creates, entry_lookahead,
                   stream, pc, callNo, result, outcome, scanner_inits,
                   scanner_finishes, filterVars, histVars>>

Next ==
    \/ free_parser
    \/ RawParserBegin
    \/ ScannerInit
    \/ ScannerInitError
    \/ FilterCall
    \/ FilterLexErrorCurrent
    \/ FilterLexErrorNext
    \/ EngineStoreTree
    \/ EngineSyntaxError
    \/ EngineReturn
    \/ SetjmpNonzero
    \/ LongjmpUndefined

Spec == Init /\ [][Next]_vars

\* ------------------------------------------------- terminating sessions
\* the grammar engine has received end-of-input in this session
EofDelivered == \E k \in 1..Len(emitted) : emitted[k].tok = EOF

\* a grammar engine that accepts or rejects once it has received end-of-input
EngineReturnAtEof ==
    /\ EofDelivered
    /\ EngineReturn

\* sessions in which no error is raised, the grammar engine keeps pulling
\* tokens and decides on end-of-input
NextLive ==
    \/ RawParserBegin
    \/ ScannerInit
    \/ FilterCall
    \/ EngineReturnAtEof

SpecLive ==
    /\ Init
    /\ [][NextLive]_vars
    /\ WF_vars(FilterCall)
    /\ WF_vars(EngineReturnAtEof)

\* =================================================================== claims
\* a session is live: base_yyparse is running, between two filter calls
InSession == pc = "parsing"

EmittedKinds == [k \in 1..Len(emitted) |-> emitted[k].tok]
\* the first n tokens the scanner returns
ScanPrefix(n) == [i \in 1..n |-> ScanTok(i)]
\* the token waiting in the lookahead slot
Pending == IF have_lookahead THEN <<lookahead_token>> ELSE <<>>

MergedKinds == {NULLS_FIRST, NULLS_LAST, WITH_CASCADED, WITH_LOCAL, WITH_CHECK}
IsTrigger(tok) == tok \in {NULLS_P, WITH_P}

\* the scanner tokens a filter token stands for
Constituents(tok) ==
    CASE tok = NULLS_FIRST -> <<NULLS_P, FIRST_P>>
      [] tok = NULLS_LAST -> <<NULLS_P, LAST_P>>
      [] tok = WITH_CASCADED -> <<WITH_P, CASCADED>>
      [] tok = WITH_LOCAL -> <<WITH_P, LOCAL_P>>
      [] tok = WITH_CHECK -> <<WITH_P, CHECK>>
      [] OTHER -> <<tok>>

RECURSIVE ExpandAll(_)
ExpandAll(seq) ==
    IF seq = <<>> THEN <<>> ELSE Constituents(Head(seq)) \o ExpandAll(Tail(seq))

\* the reference merge table: the merged kind of the pair a b, NoToken if none
MergeOf(a, b) ==
    CASE a = NULLS_P /\ b = FIRST_P -> NULLS_FIRST
      [] a = NULLS_P /\ b = LAST_P -> NULLS_LAST
      [] a = WITH_P /\ b = CASCADED -> WITH_CASCADED
      [] a = WITH_P /\ b = LOCAL_P -> WITH_LOCAL
      [] a = WITH_P /\ b = CHECK -> WITH_CHECK
      [] OTHER -> NoToken

\* the reference left-to-right greedy pair-merge of a token sequence
RECURSIVE RefMerge(_)
RefMerge(seq) ==
    IF seq = <<>> THEN <<>>
    ELSE IF Len(seq) >= 2 /\ MergeOf(seq[1], seq[2]) # NoToken
         THEN <<MergeOf(seq[1], seq[2])>> \o RefMerge(Tail(Tail(seq)))
         ELSE <<Head(seq)>> \o RefMerge(Tail(seq))

\* C1: token conservation. In a live session the tokens the filter has
\* returned, each merged token expanded into its two constituents, followed
\* by the token in the lookahead slot (if any), are exactly the tokens the
\* scanner has produced so far, in order.
C1_TokenConservation ==
    InSession => ExpandAll(EmittedKinds) \o Pending = ScanPrefix(pos)

\* C1 witness: a merged token and an unmerged trigger have been returned and
\* a token waits in the slot
C1_Witness ==
    /\ InSession
    /\ have_lookahead
    /\ Len(emitted) >= 2
    /\ \E k \in 1..Len(emitted) : emitted[k].tok \in MergedKinds

\* C2: merge table. The kinds the filter has returned are the first
\* Len(emitted) kinds of the reference greedy pair-merge of the scanner's
\* stream, and every merged token stands for exactly the two scanner tokens
\* at its position.
C2_MergeTable ==
    InSession =>
        /\ EmittedKinds = SubSeq(RefMerge(ScanPrefix(pos + 1)), 1, Len(emitted))
        /\ \A k \in 1..Len(emitted) :
              emitted[k].tok \in MergedKinds =>
                  /\ Constituents(emitted[k].tok)
                        = <<ScanTok(emitted[k].idx), ScanTok(emitted[k].idx + 1)>>
                  /\ emitted[k].n1 = emitted[k].idx + 1

\* C2 witness: the stream [WITH, CHECK, EOF] has been returned as [WITH_CHECK, EOF]
C2_Witness ==
    /\ InSession
    /\ stream = <<WITH_P, CHECK>>
    /\ EmittedKinds = <<WITH_CHECK, EOF>>
    /\ pos = 3

\* C3 (as claimed): a merged token is returned with the output value and
\* location of its first (trigger) token.
C3_MergedCarriesTrigger ==
    InSession =>
        \A k \in 1..Len(emitted) :
            emitted[k].tok \in MergedKinds =>
                /\ emitted[k].val = LexVal(emitted[k].idx)
                /\ emitted[k].loc = LexLoc(emitted[k].idx)

\* the k-th filter call took its current token from the lookahead slot
FromSlot(k) == emitted[k].n0 = emitted[k].idx

\* what a fresh trigger at scanner index i turns into
FreshTrigger(i) ==
    IF MergeOf(ScanTok(i), ScanTok(i + 1)) # NoToken
    THEN MergeOf(ScanTok(i), ScanTok(i + 1))
    ELSE ScanTok(i)

\* C4: the lookahead slot never holds more than one token: no token is ever
\* stored into an occupied slot, and a trigger replayed from the slot is
\* looked ahead from like a fresh one, so that [WITH, WITH, CHECK] is returned
\* as [WITH, WITH_CHECK] and [NULLS, NULLS, FIRST] as [NULLS, NULLS_FIRST].
C4_SlotNeverOverwritten ==
    /\ overwritten = 0
    /\ InSession =>
          /\ \A k \in 1..Len(emitted) :
                (FromSlot(k) /\ IsTrigger(ScanTok(emitted[k].idx))) =>
                    /\ emitted[k].tok = FreshTrigger(emitted[k].idx)
                    /\ emitted[k].n1 = emitted[k].idx + 1
          /\ (Len(emitted) >= 2 /\ Len(stream) >= 3
                /\ SubSeq(stream, 1, 3) = <<WITH_P, WITH_P, CHECK>>)
                => SubSeq(EmittedKinds, 1, 2) = <<WITH_P, WITH_CHECK>>
          /\ (Len(emitted) >= 2 /\ Len(stream) >= 3
                /\ SubSeq(stream, 1, 3) = <<NULLS_P, NULLS_P, FIRST_P>>)
                => SubSeq(EmittedKinds, 1, 2) = <<NULLS_P, NULLS_FIRST>>

\* C4 witness: [WITH, WITH, CHECK] has been returned as [WITH, WITH_CHECK],
\* the second WITH coming from the slot
C4_Witness ==
    /\ InSession
    /\ stream = <<WITH_P, WITH_P, CHECK>>
    /\ EmittedKinds = <<WITH_P, WITH_CHECK>>
    /\ FromSlot(2)

\* the k-th filter call had NULLS as its current token and the scanner's
\* next token is neither FIRST nor LAST
NullsThenOther(k) ==
    /\ ScanTok(emitted[k].idx) = NULLS_P
    /\ ScanTok(emitted[k].idx + 1) \notin {FIRST_P, LAST_P}

\* the filter call after the k-th returned the scanner's token i unchanged
NextReturnsUnchanged(k, i) ==
    /\ emitted[k + 1].tok = ScanTok(i)
    /\ emitted[k + 1].val = LexVal(i)
    /\ emitted[k + 1].loc = LexLoc(i)

\* C5 (as claimed): when NULLS is followed by a token other than FIRST or
\* LAST, be it a trigger itself, the call that reads NULLS returns NULLS, the
\* next call returns the second token unchanged, and the scanner advances by
\* exactly two tokens across the two calls.
C5_NullsThenOtherOriginal ==
    InSession =>
        \A k \in 1..Len(emitted) :
            NullsThenOther(k) =>
                /\ emitted[k].tok = NULLS_P
                /\ k < Len(emitted) =>
                      /\ NextReturnsUnchanged(k, emitted[k].idx + 1)
                      /\ emitted[k + 1].n1 - emitted[k].n0 = 2

\* C5 (amended): the call whose current token is NULLS returns NULLS unmerged
\* and leaves the second token in the slot; the next call takes it from the
\* slot. A second token that is no trigger is returned unchanged without a
\* scanner call, which makes two scanner tokens across the two calls when
\* NULLS came from the scanner and one when NULLS came from the slot. A second
\* token that is a trigger is looked ahead from: one more scanner token is
\* read and the second token is returned unchanged or as its merge.
C5_NullsThenOther ==
    InSession =>
        \A k \in 1..Len(emitted) :
            NullsThenOther(k) =>
                /\ emitted[k].tok = NULLS_P
                /\ emitted[k].val = LexVal(emitted[k].idx)
                /\ emitted[k].loc = LexLoc(emitted[k].idx)
                /\ emitted[k].slot
                /\ emitted[k].n1 = emitted[k].idx + 1
                /\ k < Len(emitted) =>
                      LET i == emitted[k].idx + 1 IN
                      /\ emitted[k + 1].idx = i
                      /\ FromSlot(k + 1)
                      /\ IF ~IsTrigger(ScanTok(i))
                         THEN /\ NextReturnsUnchanged(k, i)
                              /\ emitted[k + 1].n1 = emitted[k + 1].n0
                              /\ emitted[k + 1].n1 - emitted[k].n0
                                    = IF FromSlot(k) THEN 1 ELSE 2
                         ELSE /\ emitted[k + 1].n1 = emitted[k + 1].n0 + 1
                              /\ emitted[k + 1].tok = FreshTrigger(i)
                              /\ emitted[k + 1].tok = ScanTok(i)
                                    => NextReturnsUnchanged(k, i)

\* C5 witness: NULLS read from the scanner was followed by SELECT; NULLS and
\* then SELECT were returned, two scanner tokens across the two calls
C5_Witness ==
    /\ InSession
    /\ \E k \in 1..Len(emitted) :
          /\ k < Len(emitted)
          /\ ~FromSlot(k)
          /\ emitted[k].tok = NULLS_P
          /\ emitted[k + 1].tok = SELECT
          /\ emitted[k + 1].val = LexVal(emitted[k].idx + 1)
          /\ emitted[k + 1].n1 - emitted[k].n0 = 2

\* scanner tokens delivered to the grammar engine, a merged token counting two
Delivered == Len(ExpandAll(EmittedKinds))

\* C6: one-token lookahead bound. In a live session the scanner is at most
\* one token ahead of what the grammar engine has been given, and it is one
\* ahead exactly when the lookahead slot is occupied.
C6_OneTokenAhead ==
    InSession =>
        /\ pos - Delivered \in {0, 1}
        /\ pos - Delivered = 1 <=> have_lookahead

\* C6 witness: the scanner is one token ahead after a merged token and an
\* unmerged trigger
C6_Witness ==
    /\ InSession
    /\ pos - Delivered = 1
    /\ have_lookahead
    /\ \E k \in 1..Len(emitted) : emitted[k].tok \in MergedKinds

\* the grammar engine had received end-of-input before the k-th filter call
EofDeliveredBefore(k) == \E j \in 1..(k - 1) : emitted[j].tok = EOF

\* C7: trigger at end of stream. A trigger immediately followed by
\* end-of-input is returned unmerged and end-of-input by the next call; a
\* filter call asks the scanner for a token after the scanner has returned
\* end-of-input only if the grammar engine had already received
\* end-of-input; and the slot is empty whenever end-of-input is returned.
C7_TriggerAtEnd ==
    InSession =>
        \A k \in 1..Len(emitted) :
            /\ (IsTrigger(ScanTok(emitted[k].idx)) /\ ScanTok(emitted[k].idx + 1) = EOF)
                  => /\ emitted[k].tok = ScanTok(emitted[k].idx)
                     /\ k < Len(emitted) =>
                           /\ emitted[k + 1].tok = EOF
                           /\ emitted[k + 1].n1 = emitted[k].n1
            /\ (emitted[k].n1 > emitted[k].n0 /\ emitted[k].n1 > Len(stream) + 1)
                  => EofDeliveredBefore(k)
            /\ emitted[k].tok = EOF => ~emitted[k].slot

\* C7 witness: [NULLS, EOF] has been returned as [NULLS, EOF] with two scanner
\* calls, and the engine then pulled once more
C7_Witness ==
    /\ InSession
    /\ stream = <<NULLS_P>>
    /\ EmittedKinds = <<NULLS_P, EOF, EOF>>
    /\ emitted[2].n1 = 2
    /\ ~have_lookahead

\* C8: a raw_parser call that ended by an error raised through the non-local
\* exit or by a nonzero base_yyparse status returned the empty list, whatever
\* the grammar engine had stored in parsetree; a non-empty list is returned
\* only when base_yyparse returned zero.
C8_FailureReturnsNil ==
    pc = "returned" =>
        /\ outcome # "accept" => result = NIL
        /\ result # NIL => outcome = "accept"

\* C8 witness: a call in which the grammar engine had stored a tree returned
\* NIL after base_yyparse returned nonzero
C8_Witness ==
    /\ pc = "returned"
    /\ outcome = "reject"
    /\ parsetree # NIL
    /\ result = NIL

\* C9: a raw_parser call that initialized the scanner has finished it exactly
\* once when it returns, on every exit path; scanner_finish is not called
\* while the grammar engine runs and never more than once per call.
C9_ScannerFinishedOnce ==
    /\ scanner_finishes <= 1
    /\ pc \in {"scanner_init", "parsing", "longjmp"} => scanner_finishes = 0
    /\ (pc = "returned" /\ scanner_inits = 1) => scanner_finishes = 1

\* C9 witness: a call whose scanner raised a lexical error returned with the
\* scanner finished once
C9_Witness ==
    /\ pc = "returned"
    /\ outcome = "lexical"
    /\ scanner_inits = 1
    /\ scanner_finishes = 1

\* C10 (as claimed): every error raised from scanner initialization on jumps
\* to a recovery point that the same raw_parser call has established.
C10_RecoveryPointFresh ==
    pc = "longjmp" => jmpbuffer = callNo

\* C11: no lookahead state leaks between parse attempts. However the
\* previous raw_parser call ended, the slot is empty when a call starts
\* pulling tokens, and the first token its grammar engine receives is read
\* from this call's scanner, not replayed from the slot.
C11_NoLookaheadLeak ==
    /\ pc = "scanner_init" => ~have_lookahead
    /\ InSession =>
          /\ Len(emitted) = 0 => ~have_lookahead
          /\ Len(emitted) >= 1 =>
                /\ ~FromSlot(1)
                /\ emitted[1].n0 = 0
                /\ emitted[1].idx = 1
                /\ emitted[1].tok = FreshTrigger(1)

\* C11 witness: the previous call ended with the slot occupied, and the
\* second call's first token came from the second call's scanner
C11_Witness ==
    /\ InSession
    /\ callNo = 2
    /\ entry_lookahead
    /\ Len(emitted) = 1
    /\ emitted[1].tok = ScanTok(1)
    /\ emitted[1].tok # lookahead_token

\* C12: arena lifecycle. pool_memory_create is called only by a raw_parser
\* entry that finds pool_memory NULL, hence at most once; a handle once
\* created stays; and the arena's memory is released by free_parser steps
\* only, never by a step of raw_parser.
C12_ArenaLifecycle ==
    /\ [](pool_creates <= 1 /\ (pool_creates = 0 <=> pool_memory = "NULL"))
    /\ [][pool_creates' # pool_creates
            => (pool_memory = "NULL" /\ pc' = "scanner_init"
                  /\ pool_creates' = pool_creates + 1)]_vars
    /\ [][pool_memory # "NULL" => pool_memory' = pool_memory]_vars
    /\ [][(arena' = "released" /\ arena # "released") => free_parser]_vars

\* C12 witness: a second raw_parser call reused the arena created by the
\* first, and free_parser then released it
C12_Witness ==
    /\ pc = "returned"
    /\ callNo = 2
    /\ pool_creates = 1
    /\ arena = "released"

\* C13: a raw_parser call that ended by base_yyparse returning zero returned
\* what the grammar engine stored in parsetree during that call: this call's
\* tree, or NIL if the engine stored none; never an earlier call's tree.
C13_ReturnsOwnTree ==
    /\ (pc = "returned" /\ outcome = "accept") =>
          /\ result = parsetree
          /\ result \in {NIL, <<callNo>>}
    /\ pc \in {"scanner_init", "parsing"} => parsetree \in {NIL, <<callNo>>}

\* C13 witness: the second call accepted without storing a tree and returned NIL
C13_Witness ==
    /\ pc = "returned"
    /\ callNo = 2
    /\ outcome = "accept"
    /\ result = NIL

\* C14: lookahead slot lifecycle. The slot is empty before the first filter
\* call of a session; after a filter call it is occupied exactly if the call
\* returned an unmerged trigger, and then holds the scanner token that
\* followed the trigger, with its value and location; the next filter call
\* takes its current token from the slot.
C14_SlotLifecycle ==
    InSession =>
        /\ Len(emitted) = 0 => ~have_lookahead
        /\ \A k \in 1..Len(emitted) :
              /\ emitted[k].slot <=> IsTrigger(emitted[k].tok)
              /\ emitted[k].slot => emitted[k].n1 = emitted[k].idx + 1
              /\ k < Len(emitted) =>
                    (emitted[k].slot <=> FromSlot(k + 1))
              /\ (k < Len(emitted) /\ emitted[k].slot) =>
                    /\ emitted[k + 1].idx = emitted[k].idx + 1
                    /\ Head(Constituents(emitted[k + 1].tok))
                          = ScanTok(emitted[k].idx + 1)
        /\ Len(emitted) >= 1 =>
              LET e == emitted[Len(emitted)] IN
              /\ have_lookahead = e.slot
              /\ have_lookahead =>
                    /\ lookahead_token = ScanTok(e.idx + 1)
                    /\ lookahead_yylval = LexVal(e.idx + 1)
                    /\ lookahead_yylloc = LexLoc(e.idx + 1)

\* C14 witness: a slot filled behind an unmerged WITH was fused into a merge
\* by the next call, which left the slot empty
C14_Witness ==
    /\ InSession
    /\ Len(emitted) = 2
    /\ emitted[1].tok = WITH_P
    /\ emitted[1].slot
    /\ emitted[2].tok = NULLS_FIRST
    /\ ~have_lookahead

\* C15: a token returned unmerged is returned with the value and location
\* the scanner produced for that very token, be it a trigger whose lookahead
\* fetch was buffered or a token replayed from the slot.
C15_UnmergedCarriesOwnInfo ==
    InSession =>
        \A k \in 1..Len(emitted) :
            emitted[k].tok \notin MergedKinds =>
                /\ emitted[k].tok = ScanTok(emitted[k].idx)
                /\ emitted[k].val = LexVal(emitted[k].idx)
                /\ emitted[k].loc = LexLoc(emitted[k].idx)

\* C15 witness: an unmerged trigger and then the token replayed from the slot
\* were returned, each with its own value and location
C15_Witness ==
    /\ InSession
    /\ Len(emitted) >= 2
    /\ emitted[1].tok = NULLS_P
    /\ emitted[1].val = LexVal(1)
    /\ FromSlot(2)
    /\ emitted[2].tok = CHECK
    /\ emitted[2].val = LexVal(2)
    /\ emitted[2].loc = LexLoc(2)

\* C16: a filter call whose current token is neither NULLS nor WITH returns
\* that token with its kind unchanged, makes no scanner call beyond the one
\* that may have fetched it, and leaves the slot empty; this includes the
\* continuation kinds when no trigger precedes them.
C16_NonTriggerPassThrough ==
    InSession =>
        \A k \in 1..Len(emitted) :
            ~IsTrigger(ScanTok(emitted[k].idx)) =>
                /\ emitted[k].tok = ScanTok(emitted[k].idx)
                /\ emitted[k].n1 = emitted[k].idx
                /\ ~emitted[k].slot

\* C16 witness: CHECK, FIRST and end-of-input, read straight from the
\* scanner with no trigger before them, were returned one per call
C16_Witness ==
    /\ InSession
    /\ EmittedKinds = <<CHECK, FIRST_P, EOF>>
    /\ pos = 3
    /\ ~have_lookahead

\* C18: the scanner is called only while the lookahead slot is empty, so a
\* lexical error raised by either scanner call of a filter call leaves the
\* slot empty.
C18_SlotEmptyOnScannerError ==
    (pc = "longjmp" /\ outcome = "lexical") => ~have_lookahead

\* C18 witness: the lookahead fetch behind a trigger replayed from the slot
\* raised a lexical error, and the slot is empty
C18_Witness ==
    /\ pc = "longjmp"
    /\ outcome = "lexical"
    /\ ~have_lookahead
    /\ IsTrigger(lookahead_token)
    /\ base_yylloc = lookahead_yylloc
    /\ base_yylloc > 0

\* C17: termination. Every filter call makes at most two scanner calls, at
\* most one when it starts from an occupied slot; so when the grammar engine
\* keeps pulling it receives end-of-input, and a raw_parser call whose engine
\* accepts or rejects on end-of-input returns.
C17_Termination ==
    /\ [](InSession =>
            \A k \in 1..Len(emitted) :
                /\ emitted[k].n1 - emitted[k].n0 \in {0, 1, 2}
                /\ FromSlot(k) => emitted[k].n1 - emitted[k].n0 \in {0, 1})
    /\ (pc = "parsing") ~> (pc = "parsing" /\ EofDelivered)
    /\ (pc = "parsing") ~> (pc = "returned")

\* C17 witness: a session whose first filter call made two scanner calls and
\* whose second started from the slot has delivered end-of-input
C17_Witness ==
    /\ InSession
    /\ Len(emitted) = 3
    /\ emitted[1].n1 - emitted[1].n0 = 2
    /\ FromSlot(2)
    /\ emitted[2].n1 - emitted[2].n0 = 1
    /\ emitted[3].tok = EOF

====
